---- MODULE Spec2Model ----
\* A model of the process-muxer event pump (process-muxer-core, muxer/mod.rs)
\* together with the OS objects it talks to: child processes, their pipes,
\* the SIGCHLD self-pipe of signal-hook and the edge-triggered poller of mio.
EXTENDS Integers, Sequences, FiniteSets, TLC

\* ---------------------------------------------------------------- bounds
\* Number of children the caller spawns in one run.
MaxChildren == 2
\* Number of bytes written to the captured pipes in one run (all pipes together).
MaxBytes == 3
\* Capacity of the BufReader of a ChildOut (8192 in the code, scaled down).
BufCap == 2
\* Number of SIGHUP / SIGINT / SIGTERM deliveries to the muxer process in one run.
MaxSignals == 2

\* ---------------------------------------------------------------- values
\* The pids the OS hands out in one run: one more than the children of most
\* runs, for the run that ends with cleanup.
MaxPids == MaxChildren + 1
Pids == 1..MaxPids
Tags == {"Stdout", "Stderr"}
NL == "\n"
Bytes == {"a", NL}
\* The ExitStatus a child exits with. The muxer never inspects a status, it
\* only copies it, so one status per child is enough; children spawned one
\* after the other get different statuses, which tells their statuses apart.
ExitStatusOf(p) == p % 2
Statuses == {ExitStatusOf(p) : p \in Pids}
\* Option::None of a callback result or a return value.
None == "None"
\* Option<ExitStatus>, the content of an exit-status cell.
NoStatus == [some |-> FALSE, status |-> 0]
Some(st) == [some |-> TRUE, status |-> st]
\* The reductions a callback can return (Some(r)).
Reductions == {"r1", "r2"}
\* The stdio plans of a Command: which of stdout/stderr are piped.
StdioPlans == {{}, {"Stdout"}, {"Stdout", "Stderr"}}

\* EventSource values: the reaper, the signal source (feature "signals") and
\* one ChildOut per captured pipe.
Reaper == [kind |-> "ChildTerminated", pid |-> 0, tag |-> "-"]
SigSrc == [kind |-> "ReceivedSignal", pid |-> 0, tag |-> "-"]
NoSrc == [kind |-> "none", pid |-> 0, tag |-> "-"]
ChildOut(p, t) == [kind |-> "ReadableChild", pid |-> p, tag |-> t]
Streams == {ChildOut(p, t) : p \in Pids, t \in Tags}
Sources == {Reaper, SigSrc} \cup Streams

\* The signals of Signals::new([SIGHUP, SIGINT, SIGTERM]), in the order of
\* their numbers (1, 2, 15): the order the Pending iterator visits them in.
Signums == <<"SIGHUP", "SIGINT", "SIGTERM">>
SignumSet == {Signums[i] : i \in 1..Len(Signums)}
\* The Signal enum.
Signal == {"Hangup", "Interrupt", "Terminate"}
\* Some(()) of the callback of cleanup: R is the unit type there, written as
\* the first reduction.
Unit == "r1"
NoTok == -1

\* ---------------------------------------------------------------- slab
\* slab::Slab: a vector of entries, Occupied(value) or Vacant(next free key),
\* and the head `next` of the free list. Keys are 0-based.
Occupied(s) == [occ |-> TRUE, src |-> s, nxt |-> 0]
Vacant(n) == [occ |-> FALSE, src |-> NoSrc, nxt |-> n]
EmptySlab == [entries |-> <<>>, next |-> 0]

\* Slab::vacant_entry().key()
VacantKeyAtEnd(slab) == Len(slab.entries)
VacantKey(slab) == slab.next

\* VacantEntry::insert
SlabInsert(slab, s) ==
    LET key == slab.next IN
    IF key = Len(slab.entries)
      THEN [entries |-> Append(slab.entries, Occupied(s)), next |-> key + 1]
      ELSE [entries |-> [slab.entries EXCEPT ![key + 1] = Occupied(s)],
            next |-> slab.entries[key + 1].nxt]

\* Slab::contains
SlabContains(slab, key) ==
    /\ key >= 0
    /\ key < Len(slab.entries)
    /\ slab.entries[key + 1].occ

\* Slab::remove (the caller checks SlabContains; an invalid key panics)
SlabRemove(slab, key) ==
    [entries |-> [slab.entries EXCEPT ![key + 1] = Vacant(slab.next)],
     next |-> key]

SlabGet(slab, key) == slab.entries[key + 1].src

\* The sources held by the slab.
SlabSources(slab) ==
    {slab.entries[i].src : i \in {j \in 1..Len(slab.entries) : slab.entries[j].occ}}

\* ---------------------------------------------------------------- sequences
RECURSIVE Concat(_)
Concat(ss) == IF ss = <<>> THEN <<>> ELSE Head(ss) \o Concat(Tail(ss))

IsPrefix(s, t) == Len(s) <= Len(t) /\ SubSeq(t, 1, Len(s)) = s

\* Position of the first newline of s, 0 when there is none (memchr).
RECURSIVE MemChr(_, _)
MemChr(s, i) ==
    IF i > Len(s) THEN 0
    ELSE IF s[i] = NL THEN i
    ELSE MemChr(s, i + 1)

Min(a, b) == IF a < b THEN a ELSE b

RECURSIVE SeqSum(_)
SeqSum(s) == IF s = <<>> THEN 0 ELSE Head(s) + SeqSum(Tail(s))

\* All orderings of a finite set, as sequences.
RECURSIVE Perms(_)
Perms(S) ==
    IF S = {} THEN {<<>>}
    ELSE UNION {{<<x>> \o p : p \in Perms(S \ {x})} : x \in S}

\* The elements of a set of integers in increasing order.
RECURSIVE Sorted(_)
Sorted(S) ==
    IF S = {} THEN <<>>
    ELSE LET m == CHOOSE x \in S : \A y \in S : x <= y
         IN <<m>> \o Sorted(S \ {m})

\* ---------------------------------------------------------------- read_line
\* BufRead::read_line on BufReader<pipe::Receiver> (std: append_to_string over
\* read_until(b'\n')). `rbuf` is the BufReader's internal buffer, `pipe` the
\* bytes in the kernel pipe, `closed` whether every write end is closed, `acc`
\* the String the line is appended to, `read` the bytes consumed by this call.
\* The bytes appended before an error stay in `acc` (they are valid UTF-8).
\* An EINTR of the read is retried inside read_until and never reaches the caller.
RECURSIVE ReadUntil(_, _, _, _, _)
ReadUntil(rbuf, pipe, closed, acc, read) ==
    IF rbuf = <<>> /\ pipe = <<>> /\ ~closed
      THEN [res |-> "WouldBlock", n |-> read, rbuf |-> rbuf, pipe |-> pipe, acc |-> acc]
    ELSE
      LET n == Min(BufCap, Len(pipe))
          \* fill_buf: a read syscall only when the internal buffer is empty
          available == IF rbuf # <<>> THEN rbuf ELSE SubSeq(pipe, 1, n)
          pipe2 == IF rbuf # <<>> THEN pipe ELSE SubSeq(pipe, n + 1, Len(pipe))
          i == MemChr(available, 1)
      IN IF i > 0
           THEN [res |-> "Ok", n |-> read + i,
                 rbuf |-> SubSeq(available, i + 1, Len(available)),
                 pipe |-> pipe2, acc |-> acc \o SubSeq(available, 1, i)]
         ELSE IF Len(available) = 0
           THEN [res |-> "Ok", n |-> read, rbuf |-> <<>>, pipe |-> pipe2, acc |-> acc]
         ELSE ReadUntil(<<>>, pipe2, closed, acc \o available, read + Len(available))

ReadLine(rbuf, pipe, closed, acc) == ReadUntil(rbuf, pipe, closed, acc, 0)

\* The arm of `match fd.read_line(buf)` the pump takes.
ReadArmPartial(r) ==
    IF r.res = "WouldBlock" THEN (IF r.n > 0 THEN "Ok" ELSE "WouldBlock")
    ELSE IF r.n = 0 THEN "Ok0"
    ELSE "Ok"
ReadArm(r) ==
    IF r.res = "WouldBlock" THEN "WouldBlock"
    ELSE IF r.n = 0 THEN "Ok0"
    ELSE "Ok"

\* buf.clear() after the callback of a ChildWrote event.
BufKept(acc) == acc
BufAfterChildWrote(acc) == <<>>

\* ---------------------------------------------------------------- state
VARIABLES
    pc,             \* where the caller is: "idle" (between calls), "pump",
                    \* "he_swap" / "he_scan" (inside handle_event), "panic"
    state,          \* State: "Awaiting", "DrainingChildOut", "DrainingChildTerminated"
    stOut,          \* the ChildOut held by State::DrainingChildOut, else NoSrc
    fds,            \* Muxer.fds, the slab of event sources
    reg,            \* the poller's registrations: the token of each source
    ready,          \* the poller's ready list (edge-triggered): the sources with
                    \* an edge since they were last reported, and still readable
                    \* (the poller drops a listed descriptor it finds drained)
    pending_events, \* Muxer.pending_events, tokens of the copied batch
    wait_buffer,    \* Muxer.wait_buffer
    children,       \* keys of Muxer.children
    exit_status,    \* the Rc<Cell<Option<ExitStatus>>> of each child
    scan,           \* handle_event: the children the loop has still to visit
    proc,           \* OS: "unspawned", "running", "zombie", "reaped" per pid
    code,           \* OS: the status a child exited with
    sigFlag,        \* signal-hook: the pending flag of SIGCHLD
    sigPipe,        \* signal-hook: the self-pipe holds data
    pipe,           \* OS: bytes in each pipe
    wclosed,        \* OS: every write end of the pipe is closed
    rbuf,           \* ChildOut.fd: the BufReader's buffered bytes
    acc,            \* ChildOut.buf
    captured,       \* the ChildOut values created by spawn
    sigPend,        \* signal-hook: the pending flags of SIGHUP, SIGINT, SIGTERM
    sigSrcPipe,     \* signal-hook: the self-pipe of the signal source holds data
    sigState,       \* SignalSource.state: "Waiting" or "Draining"
    sigPos,         \* the position of the Pending iterator held by Draining
    caller,         \* who called pump: "user", or "cleanup" (lib.rs); "done"
                    \* once cleanup has returned
    child_count,    \* cleanup: the children it still waits for
    \* history, for stating the properties
    written,        \* all bytes written to each pipe
    log,            \* the ChildWrote / FdClosed events delivered per pipe
    terms,          \* the statuses of the ChildTerminated events delivered per pid
    cellWrites,     \* how often each exit-status cell was written
    cb,             \* the callback invocation of the last step of the pump: the
                    \* event's kind and the callback's result (NoCall if none)
    ret,            \* the value the last pump call returned
    sigLog,         \* the SignalReceived events delivered: signal number and value
    sigSent,        \* how many signals were delivered to the muxer process
    drainStart,     \* Len(sigLog) when the signal source last left Waiting
    pendingSrc,     \* for each entry of pending_events, the source whose
                    \* readiness the poller reported with it
    scanStart,      \* the children of the map that had exited when the reaper
                    \* was dispatched (during handle_event)
    spawnErr,       \* the pids of the children of spawn calls that returned Err
    cleanupPids,    \* pids() when cleanup was called
    waitFor,        \* the pid of the ChildInfo of the last wait call (0: none)
    waitRet         \* what the last wait call returned (NoRet: nothing yet)

osVars == <<proc, code, sigFlag, sigPipe, pipe, wclosed>>
muxVars == <<state, stOut, fds, reg, ready, pending_events, wait_buffer,
             children, exit_status, scan, rbuf, acc, captured>>
histVars == <<written, log, terms, cellWrites, cb, ret>>
\* The signal source and the signals of the muxer process.
sigVars == <<sigPend, sigSrcPipe, sigState, sigPos, sigLog, sigSent, drainStart>>
\* The caller of pump.
callVars == <<caller, child_count, cleanupPids, waitFor, waitRet>>
ghostVars == <<pendingSrc, scanStart, spawnErr>>
\* What only the steps of the signal source, of cleanup and of dispatch change.
extVars == <<sigVars, callVars, ghostVars>>
vars == <<pc, osVars, muxVars, histVars, sigVars, callVars, ghostVars>>

\* Result<ExitStatus> of wait: Ok(status) or Err(UnexpectedSignal{signal}).
NoRet == [kind |-> "-", status |-> 0, signal |-> "-"]
Ok(st) == [kind |-> "Ok", status |-> st, signal |-> "-"]
Err(sig) == [kind |-> "Err", status |-> 0, signal |-> sig]

\* A step of the pump that invoked no callback.
NoCall == [ev |-> "-", res |-> "NoCall"]
Called(ev, res) == [ev |-> ev, res |-> res]
\* A step of the pump in which a system call ("poll" or "read") returned
\* ErrorKind::Interrupted: no callback is invoked.
Interrupted(call) == [ev |-> call, res |-> "NoCall"]

\* ---------------------------------------------------------------- poller
\* Whether a read of the source's descriptor would not block (data or EOF).
Readable(s) ==
    IF s = Reaper THEN sigPipe
    ELSE IF s = SigSrc THEN sigSrcPipe
    ELSE pipe[s] # <<>> \/ wclosed[s]

\* The part of the Muxer that registration touches.
Mux == [fds |-> fds, reg |-> reg, ready |-> ready]

\* Muxer::register / the registration in Muxer::spawn: take the vacant key,
\* register the descriptor under it, insert the source. `readable` tells
\* whether the descriptor is readable at that moment: the poller then lists it.
Register(m, s, readable) ==
    [fds |-> SlabInsert(m.fds, s),
     reg |-> [m.reg EXCEPT ![s] = VacantKey(m.fds)],
     ready |-> IF readable THEN m.ready \cup {s} ELSE m.ready \ {s}]

\* Muxer::reregister: as register, with the poller's re-arm, which lists the
\* descriptor again if it is readable now.
ReregisterPollerOnly(m, s, readable) ==
    [fds |-> m.fds,
     reg |-> [m.reg EXCEPT ![s] = VacantKey(m.fds)],
     ready |-> IF readable THEN m.ready \cup {s} ELSE m.ready \ {s}]
Reregister(m, s, readable) ==
    [fds |-> SlabInsert(m.fds, s),
     reg |-> [m.reg EXCEPT ![s] = VacantKey(m.fds)],
     ready |-> IF readable THEN m.ready \cup {s} ELSE m.ready \ {s}]

\* Source::deregister: the source leaves the poller and is not put in the slab.
Deregister(m, s) ==
    [fds |-> m.fds,
     reg |-> [m.reg EXCEPT ![s] = NoTok],
     ready |-> m.ready \ {s}]

\* The Ok(0) arm: the stream is deregistered and dropped.
EndOfStreamKept(m, s) == Reregister(m, s, TRUE)
EndOfStream(m, s) == Deregister(m, s)

\* ---------------------------------------------------------------- Init
\* Everything but the slab and the registrations after Muxer::new:
\* State::Awaiting, no children, nothing buffered, no signal pending.
InitRest ==
    /\ pc = "idle"
    /\ state = "Awaiting"
    /\ stOut = NoSrc
    /\ ready = {}
    /\ sigPend = {}
    /\ sigSrcPipe = FALSE
    /\ sigState = "Waiting"
    /\ sigPos = 1
    /\ caller = "user"
    /\ child_count = 0
    /\ sigLog = <<>>
    /\ sigSent = 0
    /\ drainStart = 0
    /\ pendingSrc = <<>>
    /\ scanStart = {}
    /\ spawnErr = {}
    /\ cleanupPids = {}
    /\ waitFor = 0
    /\ waitRet = NoRet
    /\ pending_events = <<>>
    /\ wait_buffer = <<>>
    /\ children = {}
    /\ exit_status = [p \in Pids |-> NoStatus]
    /\ scan = <<>>
    /\ proc = [p \in Pids |-> "unspawned"]
    /\ code = [p \in Pids |-> 0]
    /\ sigFlag = FALSE
    /\ sigPipe = FALSE
    /\ pipe = [s \in Streams |-> <<>>]
    /\ wclosed = [s \in Streams |-> FALSE]
    /\ rbuf = [s \in Streams |-> <<>>]
    /\ acc = [s \in Streams |-> <<>>]
    /\ captured = {}
    /\ written = [s \in Streams |-> <<>>]
    /\ log = [s \in Streams |-> <<>>]
    /\ terms = [p \in Pids |-> <<>>]
    /\ cellWrites = [p \in Pids |-> 0]
    /\ cb = NoCall
    /\ ret = None

\* Muxer::new in the build without the "signals" feature: the reaper is
\* registered in an empty slab.
Init ==
    /\ fds = SlabInsert(EmptySlab, Reaper)
    /\ reg = [s \in Sources |-> IF s = Reaper THEN 0 ELSE NoTok]
    /\ InitRest

\* Muxer::new with the "signals" feature: the reaper, then the signal source.
InitSignals ==
    /\ fds = SlabInsert(SlabInsert(EmptySlab, Reaper), SigSrc)
    /\ reg = [s \in Sources |-> IF s = Reaper THEN 0 ELSE IF s = SigSrc THEN 1 ELSE NoTok]
    /\ InitRest

\* ---------------------------------------------------------------- the OS
\* The pids of the children spawned so far.
Spawned == {p \in Pids : proc[p] # "unspawned"}

BytesWritten == SeqSum([i \in 1..MaxPids * 2 |->
    LET p == ((i - 1) \div 2) + 1
        t == IF i % 2 = 1 THEN "Stdout" ELSE "Stderr"
    IN Len(written[ChildOut(p, t)])])

\* An edge on a descriptor puts it on the ready list if it is registered.
Edge(rdy, s) == IF reg[s] # NoTok THEN rdy \cup {s} ELSE rdy

\* A holder of the write end of a captured pipe writes one byte.
ChildWrite(s, b) ==
    /\ s \in captured
    /\ ~wclosed[s]
    /\ BytesWritten < MaxBytes
    /\ pipe' = [pipe EXCEPT ![s] = Append(@, b)]
    /\ written' = [written EXCEPT ![s] = Append(@, b)]
    /\ ready' = Edge(ready, s)
    /\ UNCHANGED <<pc, proc, code, sigFlag, sigPipe, wclosed, state,
                   stOut, fds, reg, pending_events, wait_buffer, children,
                   exit_status, scan, rbuf, acc, captured, log, terms,
                   cellWrites, cb, ret, extVars>>

\* The last write end of a captured pipe is closed.
PipeClose(s) ==
    /\ s \in captured
    /\ ~wclosed[s]
    /\ wclosed' = [wclosed EXCEPT ![s] = TRUE]
    /\ ready' = Edge(ready, s)
    /\ UNCHANGED <<pc, proc, code, sigFlag, sigPipe, pipe, state,
                   stOut, fds, reg, pending_events, wait_buffer, children,
                   exit_status, scan, rbuf, acc, captured, written, log, terms,
                   cellWrites, cb, ret, extVars>>

\* A child exits with its status: it becomes a zombie and the SIGCHLD handler
\* of signal-hook sets the pending flag and writes to the self-pipe. (The
\* handler's two stores are one step here: the reaper drains the pipe before
\* it swaps the flag, so it cannot tell them apart.)
ChildExit(p) ==
    /\ proc[p] = "running"
    /\ proc' = [proc EXCEPT ![p] = "zombie"]
    /\ code' = [code EXCEPT ![p] = ExitStatusOf(p)]
    /\ sigFlag' = TRUE
    /\ sigPipe' = TRUE
    /\ ready' = Edge(ready, Reaper)
    /\ UNCHANGED <<pc, pipe, wclosed, state, stOut, fds, reg, pending_events,
                   wait_buffer, children, exit_status, scan, rbuf, acc, captured,
                   histVars, extVars>>

\* ---------------------------------------------------------------- spawn
\* The exit-status cell a new ChildInfo starts with (Rc::new(Cell::new(None))).
NewCell == NoStatus

\* Registration of the captured pipes of a new child, stdout before stderr.
SpawnStreams(m, p, plan) ==
    LET out == ChildOut(p, "Stdout")
        err == ChildOut(p, "Stderr")
        m1 == IF "Stdout" \in plan THEN Register(m, out, Readable(out)) ELSE m
    IN IF "Stderr" \in plan THEN Register(m1, err, Readable(err)) ELSE m1

\* Muxer::spawn, between pump calls, of one of the first `limit` children of
\* the run. The OS gives the child a fresh pid.
SpawnUpTo(plan, limit) ==
    /\ pc = "idle"
    /\ caller = "user"
    /\ Cardinality(Spawned) < limit
    /\ LET p == Cardinality(Spawned) + 1
           m == SpawnStreams(Mux, p, plan)
       IN /\ proc' = [proc EXCEPT ![p] = "running"]
          /\ fds' = m.fds
          /\ reg' = m.reg
          /\ ready' = m.ready
          /\ captured' = captured \cup {ChildOut(p, t) : t \in plan}
          /\ exit_status' = [exit_status EXCEPT ![p] = NewCell]
          /\ children' = children \cup {p}
    /\ UNCHANGED <<pc, code, sigFlag, sigPipe, pipe, wclosed, state,
                   stOut, pending_events, wait_buffer, scan, rbuf, acc, histVars,
                   extVars>>

Spawn(plan) == SpawnUpTo(plan, MaxChildren)

\* The places where Muxer::spawn returns an error with `?`: cmd.spawn(), the
\* registration of stdout, the registration of stderr.
FailurePoints == {"spawn", "stdout", "stderr"}

\* The pipes spawn has registered and inserted when it fails at `at`.
RegisteredBefore(plan, at) == IF at = "stderr" THEN plan \ {"Stderr"} ELSE {}

\* Muxer::spawn returning Err. If cmd.spawn() fails there is no child and
\* nothing changes. If a registration fails the child runs (dropping a Child
\* neither kills nor waits for it), the vacant entry and the ChildOut of the
\* failed registration are dropped, and `?` returns before
\* self.children.insert: what was registered before stays.
SpawnFails(plan, at) ==
    /\ pc = "idle"
    /\ caller = "user"
    /\ Cardinality(Spawned) < MaxChildren
    /\ at = "stdout" => "Stdout" \in plan
    /\ at = "stderr" => "Stderr" \in plan
    /\ LET p == Cardinality(Spawned) + 1
           done == RegisteredBefore(plan, at)
           m == SpawnStreams(Mux, p, done)
       IN IF at = "spawn"
            THEN UNCHANGED <<proc, fds, reg, ready, captured, spawnErr>>
            ELSE /\ proc' = [proc EXCEPT ![p] = "running"]
                 /\ fds' = m.fds
                 /\ reg' = m.reg
                 /\ ready' = m.ready
                 /\ captured' = captured \cup {ChildOut(p, t) : t \in done}
                 /\ spawnErr' = spawnErr \cup {p}
    /\ UNCHANGED <<pc, code, sigFlag, sigPipe, pipe, wclosed, state, stOut,
                   pending_events, wait_buffer, children, exit_status, scan,
                   rbuf, acc, histVars, sigVars, callVars, pendingSrc, scanStart>>

\* ---------------------------------------------------------------- pump
\* Events in the per-pipe log.
ChildWrote(line) == [ev |-> "ChildWrote", line |-> line]
FdClosed == [ev |-> "FdClosed", line |-> <<>>]

\* The callback's possible results: None or Some(r).
CallbackResults == {None} \cup Reductions

\* `match func(event)`: Some(r) breaks out of the loop, None goes on.
BreaksAlways(res) == TRUE
Breaks(res) == res # None

\* The state the pump goes on in after a callback returned None
\* (`state = State::...` in the None arms).
StateOnContinueAwaiting(ev) == "Awaiting"
StateOnContinue(ev) ==
    CASE ev = "ChildTerminated" -> "DrainingChildTerminated"
      [] ev = "FdClosed" -> "Awaiting"
      [] ev = "ChildWrote" -> "DrainingChildOut"
      [] ev = "SignalReceived" -> "DrainingSignals"

\* The state the pump saves when a callback returned Some(r)
\* (`break (State::..., r)` in the Some arms).
StateOnBreakLost(ev) == "Awaiting"
StateOnBreak(ev) ==
    CASE ev = "ChildTerminated" -> "DrainingChildTerminated"
      [] ev = "FdClosed" -> "Awaiting"
      [] ev = "ChildWrote" -> "DrainingChildOut"
      [] ev = "SignalReceived" -> "DrainingSignals"

\* The Signal the source emits for a signal number (`match signum` in next).
SignalOf(signum) ==
    CASE signum = "SIGHUP" -> "Hangup"
      [] signum = "SIGINT" -> "Interrupt"
      [] signum = "SIGTERM" -> "Interrupt"

\* Pending::next of signal-hook: from the iterator's position on, the first
\* signal whose flag is set (0 if there is none). The iterator swaps a flag
\* when it visits it and stays on a signal it has just yielded.
RECURSIVE FirstPending(_, _)
FirstPending(pend, i) ==
    IF i > Len(Signums) THEN 0
    ELSE IF Signums[i] \in pend THEN i
    ELSE FirstPending(pend, i + 1)

\* Vec::pop: the event the pump dispatches next, and the rest.
Pop(evs) == [ev |-> evs[Len(evs)], rest |-> SubSeq(evs, 1, Len(evs) - 1)]

\* The event the pump hands to the callback: the tuple it pops from
\* wait_buffer, or the signal the source emits (the events of streams carry
\* nothing wait looks at).
EventOf(ev) ==
    CASE ev = "ChildTerminated" ->
           [pid |-> Pop(wait_buffer).ev.pid, result |-> Ok(Pop(wait_buffer).ev.status)]
      [] ev = "SignalReceived" ->
           [pid |-> 0, result |-> Err(SignalOf(Signums[FirstPending(sigPend, sigPos)]))]
      [] OTHER -> [pid |-> 0, result |-> NoRet]

\* The callback wait passes to pump (lib.rs): Some(Ok(exit_status)) on
\* ChildTerminated for the awaited pid, Some(Err(signal)) on SignalReceived,
\* None on anything else. The reduction is Ok or Err; its content is waitRet.
WaitOk == "r1"
WaitErr == "r2"
WaitCallback(ev, pid, target) ==
    IF ev = "ChildTerminated" /\ pid = target THEN WaitOk
    ELSE IF ev = "SignalReceived" THEN WaitErr
    ELSE None

\* The callback cleanup passes to pump: it counts the ChildTerminated events
\* down and returns Some(()) when the count reaches zero.
CleanupCallback(ev, count) ==
    IF ev = "ChildTerminated" /\ count - 1 = 0 THEN Unit ELSE None

\* child_count after the callback of cleanup saw the event.
CountAfter(ev, count) == IF ev = "ChildTerminated" THEN count - 1 ELSE count

\* What the pump does after a callback returned res: loop again in the state
\* of the None arm, or store the state of the Some arm and return r. Under
\* cleanup the callback is the one of cleanup, and the return of the pump is
\* the return of cleanup; under wait the callback is the one of wait, and
\* the reduction is what wait returns.
AfterCallback(ev, res) ==
    /\ caller = "cleanup" => res = CleanupCallback(ev, child_count)
    /\ caller = "wait" => res = WaitCallback(ev, EventOf(ev).pid, waitFor)
    /\ waitRet' = IF caller = "wait" /\ Breaks(res) THEN EventOf(ev).result ELSE waitRet
    /\ waitFor' = waitFor
    /\ child_count' = IF caller = "cleanup" THEN CountAfter(ev, child_count)
                      ELSE child_count
    /\ cb' = Called(ev, res)
    /\ IF Breaks(res)
         THEN /\ pc' = "idle"
              /\ ret' = res
              /\ state' = StateOnBreak(ev)
              /\ caller' = IF caller = "cleanup" THEN "done"
                           ELSE IF caller = "wait" THEN "user"
                           ELSE caller
         ELSE /\ pc' = "pump"
              /\ ret' = ret
              /\ state' = StateOnContinue(ev)
              /\ caller' = caller
    /\ UNCHANGED cleanupPids

\* The caller invokes pump: mem::replace takes self.state.
PumpEnter ==
    /\ pc = "idle"
    /\ caller = "user"
    /\ pc' = "pump"
    /\ cb' = NoCall
    /\ ret' = None
    /\ UNCHANGED <<osVars, muxVars, written, log, terms, cellWrites, extVars>>

\* When the pump invokes the poller: `State::Awaiting => match
\* self.pending_events.pop() { None => ...poll... }`.
PollsWhenAwaiting(st, evs) == st = "Awaiting"
Polls(st, evs) == st = "Awaiting" /\ evs = <<>>

\* State::Awaiting, pending_events empty: poll blocks until a registered
\* descriptor with an edge is readable, reports every such descriptor (in the
\* poller's order) and the batch is copied to pending_events. An EINTR of the
\* poll is retried and changes nothing.
Poll ==
    /\ pc = "pump"
    /\ Polls(state, pending_events)
    /\ ready # {}
    /\ \E order \in Perms(ready) :
          /\ pending_events' = [i \in 1..Len(order) |-> reg[order[i]]]
          /\ pendingSrc' = order
    /\ ready' = {}
    /\ cb' = NoCall
    /\ UNCHANGED <<pc, osVars, state, stOut, fds, reg, wait_buffer, children,
                   exit_status, scan, rbuf, acc, captured, written, log, terms,
                   cellWrites, ret, sigVars, callVars, scanStart, spawnErr>>

\* State::Awaiting, an event is pending: remove its source from the slab and
\* enter the source's draining state. For the reaper this is the start of
\* handle_event: signals.pending() first drains the self-pipe.
Dispatch ==
    /\ pc = "pump"
    /\ state = "Awaiting"
    /\ pending_events # <<>>
    /\ LET tok == Pop(pending_events).ev
       IN /\ pending_events' = Pop(pending_events).rest
          /\ pendingSrc' = Pop(pendingSrc).rest
          /\ IF ~SlabContains(fds, tok)
               THEN \* Slab::remove panics on a vacant key
                    /\ pc' = "panic"
                    /\ UNCHANGED <<fds, state, stOut, sigPipe, ready, scanStart>>
             ELSE IF SlabGet(fds, tok) = Reaper
               THEN /\ fds' = SlabRemove(fds, tok)
                    /\ sigPipe' = FALSE
                    /\ ready' = ready \ {Reaper}
                    /\ pc' = "he_swap"
                    /\ scanStart' = {p \in children : proc[p] = "zombie"}
                    /\ UNCHANGED <<state, stOut>>
             ELSE IF SlabGet(fds, tok) = SigSrc
               THEN /\ fds' = SlabRemove(fds, tok)
                    /\ state' = "DrainingSignals"
                    /\ UNCHANGED <<pc, stOut, sigPipe, ready, scanStart>>
             ELSE /\ fds' = SlabRemove(fds, tok)
                  /\ state' = "DrainingChildOut"
                  /\ stOut' = SlabGet(fds, tok)
                  /\ UNCHANGED <<pc, sigPipe, ready, scanStart>>
    /\ cb' = NoCall
    /\ UNCHANGED <<proc, code, sigFlag, pipe, wclosed, reg,
                   wait_buffer, children, exit_status, scan, rbuf, acc, captured,
                   written, log, terms, cellWrites, ret, sigVars, callVars,
                   spawnErr>>

\* The children map after handle_event removed the pids in the buffer.
ChildrenKept(kids, buffer) == kids
ChildrenAllRemoved(kids, buffer) == IF buffer = <<>> THEN kids ELSE {}
ChildrenAfterReap(kids, buffer) ==
    kids \ {buffer[i].pid : i \in 1..Len(buffer)}

\* The muxer's sources after handle_event removed the reaped children from
\* the map: a MuxerChild owns the Child, its path and its cell; the ChildOut
\* streams were moved out of the Child at spawn and are owned by the slab, so
\* dropping the MuxerChild closes and deregisters nothing.
StreamsDroppedWithChild(m, buffer) ==
    LET gone == {s \in Streams : \E i \in 1..Len(buffer) : buffer[i].pid = s.pid}
    IN [fds |-> m.fds,
        reg |-> [s \in DOMAIN m.reg |-> IF s \in gone THEN NoTok ELSE m.reg[s]],
        ready |-> m.ready \ gone]
StreamsAfterReap(m, buffer) == m

\* The children handle_event visits: all of the map, in key order.
ScanFirstOnly(kids) == IF kids = {} THEN <<>> ELSE <<Head(Sorted(kids))>>
ChildrenToScan(kids) == Sorted(kids)

\* Child::try_wait: Some(status) for a child that has exited; the first such
\* call reaps the zombie and the Child handle keeps the status for later calls.
TryWait(p) == proc[p] \in {"zombie", "reaped"}

\* The status handle_event stores in the child's cell.
CellUnset(st) == NoStatus
CellAfterReap(st) == Some(st)

\* The end of handle_event and its Reregister arm in the pump: the children
\* in the buffer leave the map (only if SIGCHLD was pending), the reaper goes
\* back into the slab and the pump enters DrainingChildTerminated.
HandleEventDone(sawSignal, buffer) ==
    /\ children' = IF sawSignal THEN ChildrenAfterReap(children, buffer) ELSE children
    /\ LET m == Reregister(StreamsAfterReap(Mux, buffer), Reaper, Readable(Reaper))
       IN fds' = m.fds /\ reg' = m.reg /\ ready' = m.ready
    /\ state' = "DrainingChildTerminated"
    /\ pc' = "pump"
    /\ scanStart' = {}

\* handle_event: the Pending iterator swaps the SIGCHLD flag to false;
\* `.last().is_some()` tells whether it was set.
HandleEventSwap ==
    /\ pc = "he_swap"
    /\ sigFlag' = FALSE
    /\ IF sigFlag /\ children # {}
         THEN /\ pc' = "he_scan"
              /\ scan' = ChildrenToScan(children)
              /\ UNCHANGED <<fds, reg, ready, state, children, scanStart>>
         ELSE /\ HandleEventDone(sigFlag, wait_buffer)
              /\ UNCHANGED scan
    /\ UNCHANGED <<proc, code, sigPipe, pipe, wclosed, stOut, pending_events,
                   wait_buffer, exit_status, rbuf, acc, captured, histVars,
                   sigVars, callVars, pendingSrc, spawnErr>>

\* handle_event: try_wait on the next child of the map (BTreeMap order). A
\* zombie is reaped, its status stored in its cell and pushed on the buffer.
\* After the last child the loop over the buffer removes the reaped children.
HandleEventScan ==
    /\ pc = "he_scan"
    /\ scan # <<>>
    /\ LET p == Head(scan)
           reaped == TryWait(p)
           buffer == IF reaped
                       THEN Append(wait_buffer, [pid |-> p, status |-> code[p]])
                       ELSE wait_buffer
       IN /\ proc' = IF reaped THEN [proc EXCEPT ![p] = "reaped"] ELSE proc
          /\ exit_status' = IF reaped
                              THEN [exit_status EXCEPT ![p] = CellAfterReap(code[p])]
                              ELSE exit_status
          /\ cellWrites' = IF reaped THEN [cellWrites EXCEPT ![p] = @ + 1] ELSE cellWrites
          /\ wait_buffer' = buffer
          /\ scan' = Tail(scan)
          /\ IF Tail(scan) = <<>>
               THEN HandleEventDone(TRUE, buffer)
               ELSE UNCHANGED <<pc, children, fds, reg, ready, state, scanStart>>
    /\ UNCHANGED <<code, sigFlag, sigPipe, pipe, wclosed, stOut, pending_events,
                   rbuf, acc, captured, written, log, terms, cb, ret,
                   sigVars, callVars, pendingSrc, spawnErr>>

\* State::DrainingChildTerminated with an empty buffer: back to Awaiting.
DrainTerminatedEmpty ==
    /\ pc = "pump"
    /\ state = "DrainingChildTerminated"
    /\ wait_buffer = <<>>
    /\ state' = "Awaiting"
    /\ cb' = NoCall
    /\ UNCHANGED <<pc, osVars, stOut, fds, reg, ready, pending_events, wait_buffer,
                   children, exit_status, scan, rbuf, acc, captured, written,
                   log, terms, cellWrites, ret, extVars>>

\* State::DrainingChildTerminated: pop one tuple, deliver ChildTerminated.
DrainTerminated(res) ==
    /\ pc = "pump"
    /\ state = "DrainingChildTerminated"
    /\ wait_buffer # <<>>
    /\ LET e == Pop(wait_buffer).ev
       IN terms' = [terms EXCEPT ![e.pid] = Append(@, e.status)]
    /\ wait_buffer' = Pop(wait_buffer).rest
    /\ AfterCallback("ChildTerminated", res)
    /\ UNCHANGED <<osVars, stOut, fds, reg, ready, pending_events, children,
                   exit_status, scan, rbuf, acc, captured, written, log,
                   cellWrites, sigVars, ghostVars>>

\* The result of read_line on the stream held by the state.
Read == ReadLine(rbuf[stOut], pipe[stOut], wclosed[stOut], acc[stOut])

\* State::DrainingChildOut, read_line gave Ok(n), n > 0: deliver ChildWrote
\* with the accumulator, clear it, stay in the state.
DrainOutLine(res) ==
    /\ pc = "pump"
    /\ state = "DrainingChildOut"
    /\ ReadArm(Read) = "Ok"
    /\ pipe' = [pipe EXCEPT ![stOut] = Read.pipe]
    /\ rbuf' = [rbuf EXCEPT ![stOut] = Read.rbuf]
    /\ log' = [log EXCEPT ![stOut] = Append(@, ChildWrote(Read.acc))]
    /\ acc' = [acc EXCEPT ![stOut] = BufAfterChildWrote(Read.acc)]
    /\ ready' = IF Read.pipe = <<>> /\ ~wclosed[stOut] THEN ready \ {stOut} ELSE ready
    /\ AfterCallback("ChildWrote", res)
    /\ UNCHANGED <<proc, code, sigFlag, sigPipe, wclosed, stOut,
                   fds, reg, pending_events, wait_buffer, children,
                   exit_status, scan, captured, written, terms, cellWrites,
                   sigVars, ghostVars>>

\* State::DrainingChildOut, read_line gave Ok(0): deregister the stream,
\* deliver FdClosed, go to Awaiting; the stream is dropped.
DrainOutClosed(res) ==
    /\ pc = "pump"
    /\ state = "DrainingChildOut"
    /\ ReadArm(Read) = "Ok0"
    /\ LET m == EndOfStream(Mux, stOut)
       IN fds' = m.fds /\ reg' = m.reg /\ ready' = m.ready
    /\ log' = [log EXCEPT ![stOut] = Append(@, FdClosed)]
    /\ stOut' = NoSrc
    /\ AfterCallback("FdClosed", res)
    /\ UNCHANGED <<osVars, pending_events, wait_buffer, children, exit_status,
                   scan, rbuf, acc, captured, written, terms, cellWrites,
                   sigVars, ghostVars>>

\* State::DrainingChildOut, read_line gave WouldBlock: the stream goes back to
\* the slab under the vacant key; the bytes read so far stay in its buffer.
DrainOutWouldBlock ==
    /\ pc = "pump"
    /\ state = "DrainingChildOut"
    /\ ReadArm(Read) = "WouldBlock"
    /\ pipe' = [pipe EXCEPT ![stOut] = Read.pipe]
    /\ rbuf' = [rbuf EXCEPT ![stOut] = Read.rbuf]
    /\ acc' = [acc EXCEPT ![stOut] = Read.acc]
    /\ LET m == Reregister(Mux, stOut, Read.pipe # <<>> \/ wclosed[stOut])
       IN fds' = m.fds /\ reg' = m.reg /\ ready' = m.ready
    /\ state' = "Awaiting"
    /\ stOut' = NoSrc
    /\ cb' = NoCall
    /\ UNCHANGED <<pc, proc, code, sigFlag, sigPipe, wclosed,
                   pending_events, wait_buffer, children, exit_status, scan,
                   captured, written, log, terms, cellWrites, ret, extVars>>

\* State::Awaiting, nothing pending, poll returned Err(Interrupted):
\* `continue` in the poll loop. An interrupted epoll_wait reports nothing and
\* consumes no readiness; the Events buffer is empty as before.
PollInterrupted ==
    /\ pc = "pump"
    /\ Polls(state, pending_events)
    /\ cb' = Interrupted("poll")
    /\ UNCHANGED <<pc, osVars, muxVars, written, log, terms, cellWrites, ret, extVars>>

\* The state of the `Err(e) if e.kind() == ErrorKind::Interrupted` arm.
StateOnInterruptedLost == "Awaiting"
StateOnInterrupted == "DrainingChildOut"

\* State::DrainingChildOut, read_line gave Err(Interrupted): the state keeps
\* the ChildOut, its reader and its buffer as they are. (The result is an
\* input of the arm: an interrupted read transfers nothing. std's read_until
\* retries an interrupted read itself, so with this reader the arm is taken
\* only if the reader surfaces the error.)
DrainOutInterrupted ==
    /\ pc = "pump"
    /\ state = "DrainingChildOut"
    /\ state' = StateOnInterrupted
    /\ cb' = Interrupted("read")
    /\ UNCHANGED <<pc, osVars, stOut, fds, reg, ready, pending_events, wait_buffer,
                   children, exit_status, scan, rbuf, acc, captured, written, log,
                   terms, cellWrites, ret, extVars>>

\* ---------------------------------------------------------------- cleanup
\* Muxer::cleanup (lib.rs): count the pids of pids() and send each SIGTERM;
\* if the count is positive call pump with the counting callback, else
\* return at once. (SIGTERM makes a child exit sooner or later, or never if
\* the child ignores it: ChildExit lets any running child exit at any time.)
Cleanup ==
    /\ pc = "idle"
    /\ caller = "user"
    /\ cleanupPids' = children
    /\ child_count' = Cardinality(children)
    /\ IF Cardinality(children) > 0
         THEN /\ caller' = "cleanup"
              /\ pc' = "pump"
              /\ cb' = NoCall
              /\ ret' = None
         ELSE /\ caller' = "done"
              /\ UNCHANGED <<pc, cb, ret>>
    /\ UNCHANGED <<osVars, muxVars, written, log, terms, cellWrites, sigVars,
                   ghostVars, waitFor, waitRet>>

\* ---------------------------------------------------------------- wait
\* ChildInfo::exit_status(): the content of the shared cell.
CellNeverSet(cell) == FALSE
CellIsSet(cell) == cell.some

\* Muxer::wait (lib.rs) on the ChildInfo of a spawned child: if the cell is
\* set return Ok(status) at once; else call pump with the callback of wait.
Wait(p) ==
    /\ pc = "idle"
    /\ caller = "user"
    /\ p \in Spawned \ spawnErr
    /\ waitFor' = p
    /\ IF CellIsSet(exit_status[p])
         THEN /\ waitRet' = Ok(exit_status[p].status)
              /\ UNCHANGED <<pc, cb, ret, caller>>
         ELSE /\ waitRet' = NoRet
              /\ caller' = "wait"
              /\ pc' = "pump"
              /\ cb' = NoCall
              /\ ret' = None
    /\ UNCHANGED <<osVars, muxVars, written, log, terms, cellWrites, sigVars,
                   ghostVars, child_count, cleanupPids>>

\* ---------------------------------------------------------------- signals
\* SIGHUP, SIGINT or SIGTERM is delivered to the muxer process: the handler
\* of signal-hook sets the signal's pending flag and writes to the self-pipe
\* of the signal source. A flag that is already set stays set (signals of one
\* number coalesce).
SignalArrives(signum) ==
    /\ sigSent < MaxSignals
    /\ sigSent' = sigSent + 1
    /\ sigPend' = sigPend \cup {signum}
    /\ sigSrcPipe' = TRUE
    /\ ready' = Edge(ready, SigSrc)
    /\ UNCHANGED <<pc, osVars, state, stOut, fds, reg, pending_events, wait_buffer,
                   children, exit_status, scan, rbuf, acc, captured, histVars,
                   sigState, sigPos, sigLog, drainStart, callVars, ghostVars>>

\* State::DrainingSignals, SignalSource Waiting: signals.pending() drains the
\* self-pipe and makes the iterator; the source is Draining.
SignalsPending ==
    /\ pc = "pump"
    /\ state = "DrainingSignals"
    /\ sigState = "Waiting"
    /\ sigSrcPipe' = FALSE
    /\ ready' = ready \ {SigSrc}
    /\ sigState' = "Draining"
    /\ sigPos' = 1
    /\ drainStart' = Len(sigLog)
    /\ cb' = NoCall
    /\ UNCHANGED <<pc, osVars, state, stOut, fds, reg, pending_events, wait_buffer,
                   children, exit_status, scan, rbuf, acc, captured, written, log,
                   terms, cellWrites, ret, sigPend, sigLog, sigSent, callVars,
                   ghostVars>>

\* State::DrainingSignals, SignalSource Draining, the iterator yields a signal
\* number: Emit(sig), the pump delivers SignalReceived{sig}.
SignalsEmit(res) ==
    /\ pc = "pump"
    /\ state = "DrainingSignals"
    /\ sigState = "Draining"
    /\ FirstPending(sigPend, sigPos) > 0
    /\ LET i == FirstPending(sigPend, sigPos)
       IN /\ sigPend' = sigPend \ {Signums[i]}
          /\ sigPos' = i
          /\ sigLog' = Append(sigLog, [signum |-> Signums[i],
                                       signal |-> SignalOf(Signums[i])])
    /\ AfterCallback("SignalReceived", res)
    /\ UNCHANGED <<osVars, stOut, fds, reg, ready, pending_events, wait_buffer,
                   children, exit_status, scan, rbuf, acc, captured, written, log,
                   terms, cellWrites, sigSrcPipe, sigState, sigSent, drainStart,
                   ghostVars>>

\* Drained(SourceInstruction::Reregister): the pump re-registers the source.
AfterDrainedDeregister(m, s, readable) == Deregister(m, s)
AfterDrained(m, s, readable) == Reregister(m, s, readable)

\* State::DrainingSignals, SignalSource Draining, the iterator is exhausted:
\* the source is Waiting again, Drained(Reregister) puts it back into the
\* slab and the pump is Awaiting.
SignalsDrained ==
    /\ pc = "pump"
    /\ state = "DrainingSignals"
    /\ sigState = "Draining"
    /\ FirstPending(sigPend, sigPos) = 0
    /\ sigState' = "Waiting"
    /\ sigPos' = 1
    /\ LET m == AfterDrained(Mux, SigSrc, Readable(SigSrc))
       IN fds' = m.fds /\ reg' = m.reg /\ ready' = m.ready
    /\ state' = "Awaiting"
    /\ cb' = NoCall
    /\ UNCHANGED <<pc, osVars, stOut, pending_events, wait_buffer, children,
                   exit_status, scan, rbuf, acc, captured, written, log, terms,
                   cellWrites, ret, sigPend, sigSrcPipe, sigLog, sigSent,
                   drainStart, callVars, ghostVars>>

\* ---------------------------------------------------------------- Next
\* The steps of the OS and of the pump, common to the specifications.
Os ==
    \/ \E s \in Streams : PipeClose(s)
    \/ \E p \in Pids : ChildExit(p)

Pump ==
    \/ PumpEnter
    \/ Poll
    \/ Dispatch
    \/ HandleEventSwap
    \/ HandleEventScan
    \/ DrainTerminatedEmpty
    \/ \E res \in CallbackResults : DrainTerminated(res)
    \/ \E res \in CallbackResults : DrainOutLine(res)
    \/ \E res \in CallbackResults : DrainOutClosed(res)
    \/ DrainOutWouldBlock

Writes == \E s \in Streams, b \in Bytes : ChildWrite(s, b)

\* Several children, of which one has its stdout captured.
SpawnChildren ==
    \E plan \in {{}, {"Stdout"}} : (plan = {} \/ captured = {}) /\ Spawn(plan)

Next == SpawnChildren \/ Writes \/ Os \/ Pump

Spec == Init /\ [][Next]_vars

\* One child, with any stdio plan (stdout and stderr captured or not).
SpawnOne ==
    \E plan \in StdioPlans : Spawned = {} /\ Spawn(plan)

NextPipes == SpawnOne \/ Writes \/ Os \/ Pump

SpecPipes == Init /\ [][NextPipes]_vars

\* The caller re-invokes pump whenever it returns, and the pump, once called,
\* keeps taking its next step (it is one thread; only the poll blocks).
PumpStep ==
    \/ Poll
    \/ Dispatch
    \/ HandleEventSwap
    \/ HandleEventScan
    \/ DrainTerminatedEmpty
    \/ \E res \in CallbackResults : DrainTerminated(res)
    \/ \E res \in CallbackResults : DrainOutLine(res)
    \/ \E res \in CallbackResults : DrainOutClosed(res)
    \/ DrainOutWouldBlock

\* As Next, with a single byte written to the captured pipe.
WritesOnce == \E s \in Streams, b \in Bytes : BytesWritten = 0 /\ ChildWrite(s, b)

NextLive == SpawnChildren \/ WritesOnce \/ Os \/ Pump

SpecLive == Init /\ [][NextLive]_vars /\ WF_vars(PumpEnter) /\ WF_vars(PumpStep)

\* The exits of children and the steps of the pump that handle them.
Exits == \E p \in Pids : ChildExit(p)

ReaperStep ==
    \/ Poll
    \/ Dispatch
    \/ HandleEventSwap
    \/ HandleEventScan
    \/ DrainTerminatedEmpty
    \/ \E res \in CallbackResults : DrainTerminated(res)

\* Children without captured pipes, one more than in Spec, and the caller
\* ends with cleanup.
SpawnForCleanup == SpawnUpTo({}, MaxPids)

NextCleanup == SpawnForCleanup \/ Exits \/ PumpEnter \/ ReaperStep \/ Cleanup

SpecCleanup == Init /\ [][NextCleanup]_vars

\* Every child has its stdout captured, and children are spawned between
\* pump calls, also while a stream is held by a suspended drain. A single
\* byte is written; the other readiness notifications are those of pipes
\* closing and of children exiting.
SpawnCaptured == Spawn({"Stdout"})

NextTokens == SpawnCaptured \/ WritesOnce \/ Os \/ Pump

SpecTokens == Init /\ [][NextTokens]_vars

\* As SpecPipes with a single byte written; the caller re-invokes pump
\* whenever it returns and the pump keeps taking its next step.
NextPipesLive == SpawnOne \/ WritesOnce \/ Os \/ Pump

SpecPipesLive == Init /\ [][NextPipesLive]_vars /\ WF_vars(PumpEnter) /\ WF_vars(PumpStep)

\* As SpecPipesLive without the fairness, with polls and reads that are
\* interrupted at any time.
Interruptions == PollInterrupted \/ DrainOutInterrupted

NextEintr == SpawnOne \/ WritesOnce \/ Os \/ Pump \/ Interruptions

SpecEintr == Init /\ [][NextEintr]_vars

\* One spawn call with any stdio plan, which succeeds or fails at any point.
SpawnErr ==
    \E plan \in StdioPlans, at \in FailurePoints : Spawned = {} /\ SpawnFails(plan, at)

NextSpawnErr == SpawnOne \/ SpawnErr \/ Writes \/ Os \/ Pump

SpecSpawnErr == Init /\ [][NextSpawnErr]_vars

\* The build with the "signals" feature: signals arrive at the muxer process
\* at any time, one child with or without a captured stdout, to which a
\* single byte is written.
Signals == \E signum \in SignumSet : SignalArrives(signum)

SignalPump ==
    \/ SignalsPending
    \/ \E res \in CallbackResults : SignalsEmit(res)
    \/ SignalsDrained

SpawnChild ==
    \E plan \in {{}, {"Stdout"}} : Spawned = {} /\ Spawn(plan)

NextSignals == SpawnChild \/ WritesOnce \/ Os \/ Pump \/ Signals \/ SignalPump

SpecSignals == InitSignals /\ [][NextSignals]_vars

\* The build with the "signals" feature and one child without captured pipes:
\* the reaper is the other source the pump drains. The caller re-invokes pump
\* whenever it returns and the pump keeps taking its next step.
SpawnPlain == Spawned = {} /\ Spawn({})

NextSignalsLive == SpawnPlain \/ Exits \/ PumpEnter \/ ReaperStep \/ Signals \/ SignalPump

SpecSignalsLive ==
    /\ InitSignals
    /\ [][NextSignalsLive]_vars
    /\ WF_vars(PumpEnter)
    /\ WF_vars(ReaperStep \/ SignalPump)

\* The build with the "signals" feature, children without captured pipes,
\* and a caller that calls pump with any callback and wait on any child.
SpawnPlainChildren == Spawn({})

Waits == \E p \in Pids : Wait(p)

NextWait ==
    SpawnPlainChildren \/ Exits \/ PumpEnter \/ ReaperStep \/ Signals \/ SignalPump \/ Waits

SpecWait == InitSignals /\ [][NextWait]_vars

\* ---------------------------------------------------------------- properties
\* The lines of the ChildWrote events delivered for a pipe, in delivery order.
RECURSIVE LinesOf(_)
LinesOf(l) ==
    IF l = <<>> THEN <<>>
    ELSE IF Head(l).ev = "ChildWrote" THEN <<Head(l).line>> \o LinesOf(Tail(l))
    ELSE LinesOf(Tail(l))

Delivered(s) == Concat(LinesOf(log[s]))

\* The number of FdClosed events delivered for a pipe.
ClosedCount(s) == Cardinality({i \in 1..Len(log[s]) : log[s][i] = FdClosed})

\* The bytes after the last newline of w.
RECURSIVE Residual(_)
Residual(w) ==
    IF w = <<>> THEN <<>>
    ELSE IF w[Len(w)] = NL THEN <<>>
    ELSE Residual(SubSeq(w, 1, Len(w) - 1)) \o <<w[Len(w)]>>

EndsWithNL(l) == l # <<>> /\ l[Len(l)] = NL

InPump == pc \in {"pump", "he_swap", "he_scan"}

\* C1: between pump calls a spawned child's Pid is in pids() if and only if
\* no ChildTerminated event has been delivered for it.
C1_PidsIffNotTerminated ==
    pc = "idle" => \A p \in Spawned : (p \in children <=> terms[p] = <<>>)

\* C2: at most one ChildTerminated event is delivered for each spawned child.
C2_NoDuplicateTermination ==
    \A p \in Pids : Len(terms[p]) <= 1

\* Every child was reported once and the reaper is handling one more SIGCHLD
\* readiness, a spurious one (the flag is not set).
C2_Witness ==
    /\ \A p \in 1..MaxChildren : Len(terms[p]) = 1
    /\ pc = "he_swap"
    /\ ~sigFlag

\* C3: a child that has exited is eventually reported by a ChildTerminated
\* event, when the caller keeps calling pump.
C3_TerminationReported ==
    \A p \in Pids : (proc[p] \in {"zombie", "reaped"}) ~> (terms[p] # <<>>)

\* All children have exited, were reaped and reported.
C3_Witness ==
    \A p \in 1..MaxChildren : proc[p] = "reaped" /\ terms[p] # <<>>

\* C4: when FdClosed is delivered for a pipe, the bytes written after the
\* last newline were delivered as the ChildWrote event just before it.
C4_ResidualDelivered ==
    \A s \in Streams :
        (log[s] # <<>> /\ log[s][Len(log[s])] = FdClosed /\ Residual(written[s]) # <<>>)
            => /\ Len(log[s]) >= 2
               /\ log[s][Len(log[s]) - 1] = ChildWrote(Residual(written[s]))

C7_FdClosedFinal ==
    \A s \in Streams :
        /\ ClosedCount(s) <= 1
        /\ \A i \in 1..Len(log[s]) : log[s][i] = FdClosed => i = Len(log[s])
        /\ ClosedCount(s) = 1 =>
              /\ reg[s] = NoTok
              /\ s \notin SlabSources(fds)
              /\ stOut # s

\* The callback returned a reduction on the FdClosed that followed a line,
\* and the pump call has returned it.
C7_Witness ==
    \E s \in Streams :
        /\ ClosedCount(s) = 1
        /\ Len(log[s]) >= 2
        /\ ret # None
        /\ cb.ev = "FdClosed"
        /\ pc = "idle"

\* C8: once ChildTerminated{pid, exit_status} was delivered, the handle's
\* exit_status() is Some(exit_status).
C8_StatusPublished ==
    \A p \in Pids : \A i \in 1..Len(terms[p]) : exit_status[p] = Some(terms[p][i])

\* Two children with different statuses were both reported.
C8_Witness ==
    \E p, q \in Pids :
        /\ terms[p] # <<>>
        /\ terms[q] # <<>>
        /\ terms[p] # terms[q]

\* C9: a child's cell is empty until the child is reaped, is written once,
\* and a non-empty cell never changes.
C9_CellWriteOnce ==
    [][\A p \in Pids :
          /\ exit_status[p] # NoStatus => exit_status'[p] = exit_status[p]
          /\ cellWrites'[p] <= 1
          /\ proc'[p] # "reaped" => exit_status'[p] = NoStatus /\ cellWrites'[p] = 0
          /\ proc'[p] = "reaped" => exit_status'[p] = Some(code'[p]) /\ cellWrites'[p] = 1]_vars

\* A child's cell is set and the reaper scans the children again.
C9_Witness ==
    /\ pc = "he_scan"
    /\ \E p \in Pids : exit_status[p] # NoStatus /\ p \notin children

\* C10: the pump returns exactly in a step whose callback returned Some(r),
\* and returns that r; a callback is only invoked inside a pump call.
C10_ReturnsOnReduction ==
    [][LET returns == InPump /\ pc' = "idle"
           called == log' # log \/ terms' # terms
       IN /\ returns <=> (called /\ cb'.res # None)
          /\ returns => ret' = cb'.res /\ ret' \in Reductions
          /\ called => pc = "pump" /\ cb'.res \in CallbackResults]_vars

\* A callback returned None and the pump went on, after lines and a
\* termination were delivered.
C10_Witness ==
    /\ pc = "pump"
    /\ cb.res = None
    /\ \E s \in Streams : Len(log[s]) >= 2
    /\ \E p \in Pids : terms[p] # <<>>

\* A step of the pump that invoked the callback (it delivered an event).
CallbackStep == log' # log \/ terms' # terms \/ sigLog' # sigLog

PollStep == ready # {} /\ ready' = {} /\ pendingSrc' \in Perms(ready)

\* C12: the poller is invoked only in State::Awaiting with an empty buffer of
\* readiness notifications: no source is held by the state, no termination
\* is buffered and the signal source is not draining.
C12_NoPollWhileBuffered ==
    [][PollStep =>
          /\ state = "Awaiting"
          /\ pending_events = <<>>
          /\ wait_buffer = <<>>
          /\ stOut = NoSrc
          /\ sigState = "Waiting"]_vars

\* The poller returned a batch of three notifications (reaper, signal source
\* and stream) after an earlier batch had been dispatched and drained.
C12_Witness ==
    /\ Len(pending_events) = 3
    /\ sigLog # <<>>

\* The signal table the claim states: Hangup, Interrupt, Terminate.
SignalTable(signum) ==
    CASE signum = "SIGHUP" -> "Hangup"
      [] signum = "SIGINT" -> "Interrupt"
      [] signum = "SIGTERM" -> "Terminate"

\* C13: every SignalReceived event carries the Signal of the table for the
\* signal number that was pending: Hangup for SIGHUP, Interrupt for SIGINT,
\* Terminate for SIGTERM.
C13_SignalMapping ==
    \A i \in 1..Len(sigLog) : sigLog[i].signal = SignalTable(sigLog[i].signum)

\* C14: the SignalReceived events of one drain of the signal source (from
\* its leaving Waiting to its return to Waiting) that stem from different
\* pending signals carry different Signal values. (A signal that arrives
\* again during the drain is a new delivery and is not counted here.)
C14_DedupPerDrain ==
    \A i, j \in (drainStart + 1)..Len(sigLog) :
        sigLog[i].signum # sigLog[j].signum => sigLog[i].signal # sigLog[j].signal

\* The number of SignalReceived{Interrupt} events delivered for SIGINT.
Interrupts ==
    Cardinality({i \in 1..Len(sigLog) :
        sigLog[i] = [signum |-> "SIGINT", signal |-> "Interrupt"]})

\* C15: a pending SIGINT is eventually delivered as SignalReceived{Interrupt},
\* when the caller keeps calling pump; and whenever the pump is not in
\* DrainingSignals the signal source is Waiting, registered and in the slab.
C15_SignalsNotLost ==
    /\ \A n \in 0..MaxSignals :
          ("SIGINT" \in sigPend /\ Interrupts = n) ~> (Interrupts > n)
    /\ [](state # "DrainingSignals" =>
            /\ sigState = "Waiting"
            /\ SigSrc \in SlabSources(fds)
            /\ SlabContains(fds, reg[SigSrc])
            /\ SlabGet(fds, reg[SigSrc]) = SigSrc)

\* Interrupt was delivered twice: for a SIGINT, and for a SIGINT that arrived
\* after the first had been delivered.
C15_Witness ==
    /\ Interrupts = 2
    /\ sigState = "Waiting"
    /\ state = "Awaiting"

\* C16: after a spawn call that returned an error the muxer holds nothing of
\* the attempt: no stream of that child is registered or in the slab, the
\* child is not in the children map, and no event is delivered for its pid.
C16_NoPartialResources ==
    \A p \in spawnErr :
        /\ p \notin children
        /\ terms[p] = <<>>
        /\ \A t \in Tags :
              /\ reg[ChildOut(p, t)] = NoTok
              /\ ChildOut(p, t) \notin SlabSources(fds)
              /\ stOut # ChildOut(p, t)
              /\ log[ChildOut(p, t)] = <<>>

\* C17: when cleanup has returned, every child that was in pids() when it
\* was called has terminated and its ChildTerminated event was delivered,
\* and pids() is empty.
C17_CleanupWaitsForAll ==
    caller = "done" =>
        /\ \A p \in cleanupPids :
              /\ proc[p] \in {"zombie", "reaped"}
              /\ terms[p] # <<>>
        /\ children = {}

\* C18: every readiness notification in pending_events carries a token that
\* is occupied in the slab by the source the poller reported, so the slab
\* removal of dispatch never panics and never yields another source.
C18_DispatchFindsSource ==
    /\ pc # "panic"
    /\ Len(pendingSrc) = Len(pending_events)
    /\ \A i \in 1..Len(pending_events) :
          /\ SlabContains(fds, pending_events[i])
          /\ SlabGet(fds, pending_events[i]) = pendingSrc[i]

\* A drain is suspended with its stream out of the slab, a child spawned
\* meanwhile got the slot (and the token) the stream had, and a notification
\* of the earlier batch is still buffered.
C18_Witness ==
    /\ state = "DrainingChildOut"
    /\ pending_events # <<>>
    /\ \E s \in Streams :
          /\ s # stOut
          /\ s \in SlabSources(fds)
          /\ reg[s] = reg[stOut]

\* The streams that have not reached end-of-stream.
LiveStreams == {s \in captured : ClosedCount(s) = 0}

\* The keys under which the slab holds a source.
KeysOf(s) == {k \in 0..(Len(fds.entries) - 1) : SlabContains(fds, k) /\ SlabGet(fds, k) = s}

\* The source the pump state holds.
HeldByState(s) ==
    \/ state = "DrainingChildOut" /\ stOut = s
    \/ state = "DrainingSignals" /\ s = SigSrc

\* C19: at every pump boundary and callback invocation every live source is
\* either in the slab under exactly one token or the source held by the pump
\* state, never both and never neither; at most one source is outside the
\* slab and the reaper is always in it.
C19_OneSourceOutside ==
    pc \in {"idle", "pump"} =>
        /\ \A s \in {Reaper, SigSrc} \cup LiveStreams :
              \/ Cardinality(KeysOf(s)) = 1 /\ ~HeldByState(s)
              \/ KeysOf(s) = {} /\ HeldByState(s)
        /\ Cardinality({s \in {Reaper, SigSrc} \cup LiveStreams : KeysOf(s) = {}}) <= 1
        /\ Cardinality(KeysOf(Reaper)) = 1

\* Both kinds of held source occur at a callback that ends the pump call:
\* the signal source is held while a live stream sits in the slab, having
\* been held itself and put back before.
C19_Witness ==
    /\ pc = "idle"
    /\ state = "DrainingSignals"
    /\ KeysOf(SigSrc) = {}
    /\ \E s \in LiveStreams : KeysOf(s) # {} /\ log[s] # <<>>

\* The pids of the tuples in a buffer of terminations.
PidsIn(buffer) == {buffer[i].pid : i \in 1..Len(buffer)}

\* The step that ends handle_event.
HandleEventEnds == pc \in {"he_swap", "he_scan"} /\ pc' = "pump"

\* C20: one pass of handle_event reaps every child of the map that had
\* exited when the reaper's readiness was dispatched, each once and with its
\* status, and when the poller is invoked again the buffer is empty and a
\* ChildTerminated event with its status was delivered, once, for every
\* reaped child.
C20_CoalescedReapedInOnePass ==
    [][/\ HandleEventEnds =>
             /\ scanStart \subseteq PidsIn(wait_buffer')
             /\ Cardinality(PidsIn(wait_buffer')) = Len(wait_buffer')
             /\ \A i \in 1..Len(wait_buffer') :
                   /\ proc'[wait_buffer'[i].pid] = "reaped"
                   /\ wait_buffer'[i].status = code[wait_buffer'[i].pid]
                   /\ terms[wait_buffer'[i].pid] = <<>>
       /\ PollStep =>
             /\ wait_buffer = <<>>
             /\ \A p \in Pids : proc[p] = "reaped" => terms[p] = <<code[p]>>]_vars

\* One pass of handle_event, for one readiness of the reaper, reaped two
\* children; the pump delivered the event of one and returned a reduction.
C20_Witness ==
    /\ pc = "idle"
    /\ state = "DrainingChildTerminated"
    /\ Len(wait_buffer) = 1
    /\ \E p \in Pids :
          /\ p # wait_buffer[1].pid
          /\ terms[p] # <<>>
          /\ cellWrites[p] = 1
          /\ ~(\E q \in Pids : q # p /\ terms[q] # <<>>)

\* C21: the buffer of reaped children is non-empty only in
\* State::DrainingChildTerminated: it is empty at every pump boundary and
\* between pump steps in any other state, and whenever handle_event is
\* called; so the children handle_event removes from the map are exactly
\* those it reaped and pushed in that call.
C21_BufferOnlyWhileDraining ==
    [][/\ (pc \in {"idle", "pump"} /\ state # "DrainingChildTerminated") => wait_buffer = <<>>
       /\ pc = "he_swap" => wait_buffer = <<>>
       /\ HandleEventEnds =>
             /\ children' = children \ PidsIn(wait_buffer')
             /\ PidsIn(wait_buffer') \subseteq children
             /\ \A p \in PidsIn(wait_buffer') :
                   proc'[p] = "reaped" /\ exit_status'[p] = Some(code[p])]_vars

\* handle_event is called again, with a child to reap, after an earlier call
\* whose buffer the pump has drained.
C21_Witness ==
    /\ pc = "he_swap"
    /\ sigFlag
    /\ \E p \in Pids : terms[p] # <<>>
    /\ \E q \in children : proc[q] = "zombie"

\* C22: handle_event removes from the children map only children whose
\* try_wait yielded an exit status; a child still running stays in the map
\* with an empty exit-status cell; and when no SIGCHLD is pending at the
\* call, the map, the cells and the buffer are unchanged.
C22_ReapingFrame ==
    [][/\ HandleEventEnds =>
             /\ \A p \in children \ children' :
                   proc'[p] = "reaped" /\ exit_status'[p] = Some(code[p])
             /\ \A p \in children :
                   proc'[p] = "running" => p \in children' /\ exit_status'[p] = NoStatus
       /\ (pc = "he_scan" /\ scan' # scan /\ proc[Head(scan)] = "running") =>
             /\ UNCHANGED <<exit_status, wait_buffer, proc>>
             /\ Head(scan) \in children'
       /\ (pc = "he_swap" /\ pc' # pc /\ ~sigFlag) =>
             UNCHANGED <<children, exit_status, wait_buffer, proc>>]_vars

\* handle_event returned having reaped one child while another, still
\* running, stayed in the map with an empty cell.
C22_Witness ==
    /\ pc = "pump"
    /\ state = "DrainingChildTerminated"
    /\ wait_buffer # <<>>
    /\ terms[wait_buffer[1].pid] = <<>>
    /\ \E q \in children : proc[q] = "running" /\ exit_status[q] = NoStatus

\* The bytes of w up to its last newline.
WholeLines(w) == SubSeq(w, 1, Len(w) - Len(Residual(w)))

\* The streams in the slab, each with its key.
StreamKeys(slab) ==
    {<<k, slab.entries[k + 1].src>> :
        k \in {j \in 0..(Len(slab.entries) - 1) :
                 slab.entries[j + 1].occ /\ slab.entries[j + 1].src \in Streams}}

\* A step of handle_event, or the delivery of a ChildTerminated event.
ReapOrDeliver ==
    \/ pc \in {"he_swap", "he_scan"} /\ (pc' # pc \/ scan' # scan)
    \/ terms' # terms

\* C23: reaping a child and delivering its ChildTerminated event leaves the
\* child's streams registered, in the slab and with their buffers; a stream
\* stays registered until its own FdClosed; and after ChildTerminated the
\* lines written to a captured pipe are still delivered and, once the pipe is
\* closed, its FdClosed.
C23_StreamsOutliveChild ==
    /\ [][/\ ReapOrDeliver =>
                /\ StreamKeys(fds') = StreamKeys(fds)
                /\ \A s \in Streams : reg'[s] = reg[s] /\ (s \in ready' <=> s \in ready)
                /\ UNCHANGED <<stOut, captured, rbuf, acc, pipe, wclosed, log>>
          /\ \A s \in captured : ClosedCount(s) = 0 => reg[s] # NoTok]_vars
    /\ \A s \in Streams :
          /\ (terms[s.pid] # <<>> /\ s \in captured)
                ~> IsPrefix(WholeLines(written[s]), Delivered(s))
          /\ (terms[s.pid] # <<>> /\ s \in captured /\ wclosed[s])
                ~> (ClosedCount(s) = 1)

\* ChildTerminated was just delivered for a child between the FdClosed of its
\* stdout and that of its stderr: stderr is still registered, in the slab,
\* with a line unread in its pipe.
C23_Witness ==
    /\ cb.ev = "ChildTerminated"
    /\ \E p \in Pids :
          /\ terms[p] # <<>>
          /\ ClosedCount(ChildOut(p, "Stdout")) = 1
          /\ ClosedCount(ChildOut(p, "Stderr")) = 0
          /\ ChildOut(p, "Stderr") \in SlabSources(fds)
          /\ reg[ChildOut(p, "Stderr")] # NoTok
          /\ pipe[ChildOut(p, "Stderr")] # <<>>

\* A call of wait.
WaitCallStep ==
    /\ pc = "idle"
    /\ caller = "user"
    /\ waitFor' # waitFor \/ waitRet' # waitRet \/ caller' = "wait"

\* C24: wait on a child whose cell is set returns Ok(status) at once,
\* without pumping, whether its ChildTerminated event was delivered to an
\* earlier callback or is still buffered; otherwise it pumps and returns
\* exactly on the first ChildTerminated event of that pid, with its status,
\* or on a SignalReceived event, with Err of its signal.
C24_WaitOnReapedChild ==
    [][/\ (WaitCallStep /\ exit_status[waitFor'].some) =>
             /\ waitRet' = Ok(code[waitFor'])
             /\ pc' = "idle"
             /\ caller' = "user"
             /\ UNCHANGED <<osVars, muxVars, sigVars, histVars>>
       /\ (WaitCallStep /\ ~exit_status[waitFor'].some) =>
             /\ waitRet' = NoRet
             /\ pc' = "pump"
             /\ caller' = "wait"
             /\ terms[waitFor'] = <<>>
       /\ (caller = "wait" /\ CallbackStep) =>
             IF terms'[waitFor] # terms[waitFor]
               THEN /\ terms[waitFor] = <<>>
                    /\ waitRet' = Ok(terms'[waitFor][1])
                    /\ terms'[waitFor][1] = code[waitFor]
                    /\ pc' = "idle" /\ caller' = "user"
             ELSE IF sigLog' # sigLog
               THEN /\ waitRet' = Err(sigLog'[Len(sigLog')].signal)
                    /\ pc' = "idle" /\ caller' = "user"
             ELSE /\ waitRet' = NoRet
                  /\ pc' = "pump" /\ caller' = "wait"
       /\ (caller = "wait" /\ ~CallbackStep) => caller' = "wait" /\ pc' # "idle"]_vars

\* wait returned Ok at once for a child that was reaped in the same pass as
\* another, whose event ended the previous pump call: the awaited child's
\* own ChildTerminated event is still in the buffer.
C24_Witness ==
    /\ pc = "idle"
    /\ waitFor \in PidsIn(wait_buffer)
    /\ terms[waitFor] = <<>>
    /\ waitRet = Ok(code[waitFor])

\* A step in which poll or read_line returned Interrupted.
InterruptedStep == cb' # cb /\ cb' \in {Interrupted("poll"), Interrupted("read")}

\* C25: an Interrupted result of the poller leaves the pump about to poll
\* again, and one of a stream read leaves it in DrainingChildOut with the
\* same stream and accumulator; in both cases no callback is invoked, no
\* event is produced, nothing read or buffered is lost and the pump neither
\* returns nor panics.
C25_InterruptionInvisible ==
    [][InterruptedStep =>
          /\ pc = "pump" /\ pc' = "pump"
          /\ cb'.res = "NoCall"
          /\ UNCHANGED <<osVars, muxVars, sigVars, callVars, written, log, terms,
                         cellWrites, ret>>
          /\ cb' = Interrupted("poll") => Polls(state', pending_events')
          /\ cb' = Interrupted("read") =>
                /\ state' = "DrainingChildOut"
                /\ stOut' = stOut /\ stOut \in captured
                /\ stOut \notin SlabSources(fds')
                /\ acc'[stOut] = acc[stOut] /\ rbuf'[stOut] = rbuf[stOut]]_vars

\* A read was interrupted while the stream's accumulator held bytes of an
\* unfinished line read before.
C25_Witness ==
    /\ cb = Interrupted("read")
    /\ state = "DrainingChildOut"
    /\ acc[stOut] # <<>>

\* A step in which the pump takes a readiness notification from its buffer.
DispatchStep == Len(pending_events') = Len(pending_events) - 1

\* C26: the sources of a batch are dispatched in the order in which the
\* poller listed them: each dispatch takes the first notification of the
\* batch that has not been dispatched yet, and leaves the later ones.
C26_BatchOrder ==
    [][DispatchStep =>
          /\ pendingSrc' = Tail(pendingSrc)
          /\ pending_events' = Tail(pending_events)]_vars

====
